---- MODULE Spec2Model ----
(***************************************************************************)
(* Model of doxygen_squirrel_filter.py: the SquirrelFilter scanner, its    *)
(* rewrite rules, the brace tracker and the buffered per-class output.     *)
(*                                                                         *)
(* Text is a sequence of lexemes (tokens).  A token is one of the markers  *)
(* the regular expressions of the filter look for, a white-space run of    *)
(* one character, or a word (identifier, keyword or number).  A regular    *)
(* expression is modelled by an operator that finds its first match in a   *)
(* token sequence, the way re.search / re.match do.                        *)
(***************************************************************************)
EXTENDS Integers, Sequences, FiniteSets, TLC

(***************************************************************************)
(* Bounds of the model.                                                    *)
(***************************************************************************)
MaxLines == 3
DeepBraces == 25

(***************************************************************************)
(* Settings and constants of the filter.                                   *)
(***************************************************************************)
keep_function == TRUE
keep_constructor == TRUE
track_class_functions == TRUE
check_end_of_class == TRUE
hide_private_symbols == TRUE
MAX_BLOCK_LEVEL == 50

QUOTE == "\""
NL == "\n"
SP == " "
INTERNAL == "@internal"
PRIVATE == "@private"
PUBLIC == "public:"
INCLUDE == "#include "

(***************************************************************************)
(* Character classes of the regular expressions.                           *)
(***************************************************************************)
Keywords == {"class", "function", "extends", "constructor", "require", "import", "enum"}
PrivateNames == {"_x", "_g"}
PublicNames == {"A", "B", "f", "g", "a", "b", "x", "y"}
Digits == {"1"}
Words == Keywords \cup PrivateNames \cup PublicNames \cup Digits

IsWs(t) == t \in {SP, NL}
IsWord(t) == t \in Words
IsName(t) == t \in Words \ Digits
StartsWithUnderscore(t) == t \in PrivateNames

(***************************************************************************)
(* Slicing and searching.                                                  *)
(***************************************************************************)
Take(s, n) == SubSeq(s, 1, n)
Drop(s, n) == SubSeq(s, n + 1, Len(s))
FirstIn(S) == IF S = {} THEN 0 ELSE CHOOSE i \in S : \A j \in S : i <= j
Find(s, t) == FirstIn({i \in 1..Len(s) : s[i] = t})
SkipWs(s, i) == FirstIn({j \in i..(Len(s) + 1) : j = Len(s) + 1 \/ ~IsWs(s[j])})
BackWs(s, i) == IF {j \in 1..i : ~IsWs(s[j])} = {} THEN 0
                ELSE CHOOSE j \in 1..i : ~IsWs(s[j]) /\ \A k \in (j + 1)..i : IsWs(s[k])
Rep(t, n) == [i \in 1..n |-> t]

(***************************************************************************)
(* re_classend.match: optional white space, then a semicolon, at the      *)
(* start of the text.                                                      *)
(***************************************************************************)
re_classend_NeedsSpace(part) ==
    LET j == SkipWs(part, 1) IN j > 1 /\ j <= Len(part) /\ part[j] = ";"

re_classend(part) ==
    LET j == SkipWs(part, 1) IN j <= Len(part) /\ part[j] = ";"

(***************************************************************************)
(* re_classname.search: class, white space, a name (group 1).              *)
(***************************************************************************)
re_classname(s) ==
    LET ok(i) == /\ s[i] = "class"
                 /\ i + 1 <= Len(s) /\ IsWs(s[i + 1])
                 /\ SkipWs(s, i + 1) <= Len(s)
                 /\ IsName(s[SkipWs(s, i + 1)])
        p == FirstIn({i \in 1..Len(s) : ok(i)})
    IN  IF p = 0 THEN [pos |-> 0, name |-> "", end |-> 0]
        ELSE [pos |-> p, name |-> s[SkipWs(s, p + 1)], end |-> SkipWs(s, p + 1)]

(***************************************************************************)
(* re_functionname.search: function (group 1), white space, a name (2).    *)
(***************************************************************************)
re_functionname(s) ==
    LET ok(i) == /\ s[i] = "function"
                 /\ i + 1 <= Len(s) /\ IsWs(s[i + 1])
                 /\ SkipWs(s, i + 1) <= Len(s)
                 /\ IsName(s[SkipWs(s, i + 1)])
        p == FirstIn({i \in 1..Len(s) : ok(i)})
    IN  IF p = 0 THEN [pos |-> 0, name |-> ""]
        ELSE [pos |-> p, name |-> s[SkipWs(s, p + 1)]]

(***************************************************************************)
(* re_classfunctionname.search: function (group 1), white space, a class  *)
(* name (2), the scope operator, a function name (3).                      *)
(***************************************************************************)
re_classfunctionname(s) ==
    LET ok(i) == /\ s[i] = "function"
                 /\ i + 1 <= Len(s) /\ IsWs(s[i + 1])
                 /\ SkipWs(s, i + 1) + 2 <= Len(s)
                 /\ IsName(s[SkipWs(s, i + 1)])
                 /\ s[SkipWs(s, i + 1) + 1] = "::"
                 /\ IsName(s[SkipWs(s, i + 1) + 2])
        p == FirstIn({i \in 1..Len(s) : ok(i)})
    IN  IF p = 0 THEN [pos |-> 0, cname |-> "", fname |-> "", end |-> 0]
        ELSE [pos |-> p, cname |-> s[SkipWs(s, p + 1)],
              fname |-> s[SkipWs(s, p + 1) + 2], end |-> SkipWs(s, p + 1) + 2]

(***************************************************************************)
(* re_privatevar.search: optional white space, a possibly empty word       *)
(* (group 1), white space, an equals sign.  The leftmost match ends at     *)
(* the first equals sign that follows white space; group 1 is the word     *)
(* right before that white space, or empty.  pos is the start of group 1   *)
(* (0: no match), priv tells whether group 1 starts with an underscore.    *)
(***************************************************************************)
re_privatevar(s) ==
    LET e == FirstIn({i \in 2..Len(s) : s[i] = "=" /\ IsWs(s[i - 1])})
        w == IF e = 0 THEN 0 ELSE BackWs(s, e - 1)
    IN  IF e = 0 THEN [found |-> FALSE, pos |-> 0, priv |-> FALSE]
        ELSE IF w > 0 /\ IsWord(s[w])
             THEN [found |-> TRUE, pos |-> w, priv |-> StartsWithUnderscore(s[w])]
             ELSE [found |-> TRUE, pos |-> w + 1, priv |-> FALSE]

(***************************************************************************)
(* re_privateenum.search: enum (group 1), white space, a name that starts  *)
(* with an underscore (2); the position of group 1.                        *)
(***************************************************************************)
re_privateenum(s) ==
    LET ok(i) == /\ s[i] = "enum"
                 /\ i + 1 <= Len(s) /\ IsWs(s[i + 1])
                 /\ SkipWs(s, i + 1) <= Len(s)
                 /\ StartsWithUnderscore(s[SkipWs(s, i + 1)])
    IN  FirstIn({i \in 1..Len(s) : ok(i)})

(***************************************************************************)
(* re_require / re_import .search: the keyword, optional white space, an   *)
(* opening parenthesis; start and end of the match.                        *)
(***************************************************************************)
re_call(s, kw) ==
    LET ok(i) == /\ s[i] = kw
                 /\ SkipWs(s, i + 1) <= Len(s)
                 /\ s[SkipWs(s, i + 1)] = "("
        p == FirstIn({i \in 1..Len(s) : ok(i)})
    IN  IF p = 0 THEN [pos |-> 0, end |-> 0] ELSE [pos |-> p, end |-> SkipWs(s, p + 1)]

(***************************************************************************)
(* State of one filtering run.                                             *)
(*   lines, lineno      the lines of the file read so far and their count  *)
(*   temp_line          the rest of the line line_handler is working on    *)
(*   pc                 read: between two lines; line: inside the loop of  *)
(*                      line_handler; done: output written; error: the     *)
(*                      run was ended by an exception                      *)
(*   err                the exception that ended the run                   *)
(*   classes            the ClassData records, in order of discovery       *)
(*   cur_class          index in classes of the current record, 0 = None   *)
(*   written            what WriteBuf sent to stdout                       *)
(*   warnings           number of end-of-string warnings sent to stderr    *)
(*   span_in, span_out  argument and produced text of the last brace pass  *)
(*   appended           history: every text added to outbuf by a += of the *)
(*                      code, in the order of the additions                *)
(***************************************************************************)
VARIABLES lines, lineno, temp_line, pc, err,
          in_multiline_comment, current_class, want_class_start, want_class_end,
          block_level, classes, cur_class, outbuf, need_function_params,
          params_buf, written, warnings, span_in, span_out, appended

vars == <<lines, lineno, temp_line, pc, err,
          in_multiline_comment, current_class, want_class_start, want_class_end,
          block_level, classes, cur_class, outbuf, need_function_params,
          params_buf, written, warnings, span_in, span_out, appended>>

(***************************************************************************)
(* ClassData.__init__                                                      *)
(***************************************************************************)
ClassData(name) ==
    [classname |-> name, functions |-> <<>>, missing |-> <<>>,
     params |-> <<>>, output_buffer |-> <<>>]

(***************************************************************************)
(* class_names is appended to together with classes.                       *)
(***************************************************************************)
class_names(cls) == [i \in 1..Len(cls) |-> cls[i].classname]

(***************************************************************************)
(* The fields of the filter object that filter_part reads and writes,      *)
(* with the locals output and part of the function under way.              *)
(***************************************************************************)
Self ==
    [current_class |-> current_class, want_class_start |-> want_class_start,
     want_class_end |-> want_class_end, block_level |-> block_level,
     classes |-> classes, cur_class |-> cur_class, outbuf |-> outbuf,
     need_function_params |-> need_function_params, params_buf |-> params_buf,
     err |-> "none", output |-> <<>>, part |-> <<>>,
     span_in |-> span_in, span_out |-> span_out, appended |-> appended]

(***************************************************************************)
(* check_params_end                                                        *)
(***************************************************************************)
check_params_end(R, part) ==
    IF ~R.need_function_params THEN R
    ELSE LET temp == Find(part, ")") IN
         IF temp > 0
         THEN LET buf == R.params_buf \o Take(part, temp) IN
              IF R.cur_class = 0
              THEN [R EXCEPT !.params_buf = buf, !.err = "attribute"]
              ELSE [R EXCEPT !.classes[R.cur_class].params = Append(@, buf),
                             !.need_function_params = FALSE,
                             !.params_buf = <<>>]
         ELSE [R EXCEPT !.params_buf = @ \o part]

(***************************************************************************)
(* filter_part, the replacement of the first assignment arrow and of the   *)
(* first extends.                                                          *)
(***************************************************************************)
ReplaceAssignment_All(output) ==
    [i \in 1..Len(output) |-> IF output[i] = "<-" THEN "=" ELSE output[i]]

ReplaceAssignment(output) ==
    LET a == Find(output, "<-") IN
    IF a > 0 THEN Take(output, a - 1) \o <<"=">> \o Drop(output, a) ELSE output

ReplaceExtends(output) ==
    LET e == Find(output, "extends") IN
    IF e > 0 THEN Take(output, e - 1) \o <<":">> \o Drop(output, e) ELSE output

(***************************************************************************)
(* filter_part, class declaration and class start block.                   *)
(***************************************************************************)
ClassStart_KeepsWant(R, start_pos) ==
    IF ~R.want_class_start THEN R
    ELSE LET class_start == Find(Drop(R.output, start_pos), "{") IN
         IF class_start = 0 THEN R
         ELSE [R EXCEPT !.want_class_end = TRUE,
                        !.output = Take(R.output, start_pos + class_start)
                                   \o <<PUBLIC>>
                                   \o Drop(R.output, start_pos + class_start)]

ClassStart(R, start_pos) ==
    IF ~R.want_class_start THEN R
    ELSE LET class_start == Find(Drop(R.output, start_pos), "{") IN
         IF class_start = 0 THEN R
         ELSE [R EXCEPT !.want_class_start = FALSE,
                        !.want_class_end = TRUE,
                        !.output = Take(R.output, start_pos + class_start)
                                   \o <<PUBLIC>>
                                   \o Drop(R.output, start_pos + class_start)]

ClassDeclaration(R) ==
    LET classname == re_classname(R.output) IN
    IF classname.pos = 0 THEN ClassStart(R, 0)
    ELSE ClassStart([R EXCEPT !.want_class_start = TRUE,
                              !.current_class = classname.name,
                              !.cur_class = Len(R.classes) + 1,
                              !.classes = Append(@, ClassData(classname.name))],
                    classname.end)

(***************************************************************************)
(* filter_part, tracking of member functions.                              *)
(***************************************************************************)
TrackInside(R) ==
    LET fn_name == re_functionname(R.output) IN
    IF fn_name.pos = 0 THEN R
    ELSE IF R.cur_class = 0 THEN [R EXCEPT !.err = "attribute"]
    ELSE LET R1 == [R EXCEPT !.classes[R.cur_class].functions = Append(@, fn_name.name)] IN
         IF hide_private_symbols /\ StartsWithUnderscore(fn_name.name)
         THEN [R1 EXCEPT !.output = Take(@, fn_name.pos - 1) \o <<PRIVATE>>
                                    \o Drop(@, fn_name.pos - 1)]
         ELSE R1

IsDeclared(cd, fname) == \E i \in 1..Len(cd.functions) : cd.functions[i] = fname

TrackOutside(R) ==
    LET fn_name == re_classfunctionname(R.output) IN
    IF fn_name.pos = 0 THEN R
    ELSE LET cidx == Find(class_names(R.classes), fn_name.cname) IN
         IF cidx = 0 THEN [R EXCEPT !.err = "index"]
         ELSE LET R1 == [R EXCEPT !.cur_class = cidx] IN
              IF /\ ~IsDeclared(R.classes[cidx], fn_name.fname)
                 /\ ~(hide_private_symbols /\ StartsWithUnderscore(fn_name.fname))
              THEN check_params_end(
                       [R1 EXCEPT !.classes[cidx].missing = Append(@, fn_name.fname),
                                  !.need_function_params = TRUE],
                       Drop(R.output, fn_name.end))
              ELSE R1

TrackFunctions(R) ==
    IF ~track_class_functions THEN R
    ELSE LET S1 == {check_params_end(R, R.output)}
             S2 == {IF r.err # "none" THEN r
                    ELSE IF r.want_class_end THEN TrackInside(r)
                    ELSE IF r.block_level = 0 THEN TrackOutside(r)
                    ELSE r : r \in S1}
         IN  CHOOSE r \in S2 : TRUE

(***************************************************************************)
(* filter_part, hiding of private variables and enums.  The level tested   *)
(* is the level at the start of the span: the braces of the span are       *)
(* counted later, by parse_blocks.                                         *)
(***************************************************************************)
doxy_cmd(level) == IF level = 0 THEN INTERNAL ELSE PRIVATE

HidePrivateVar(output, level) ==
    LET temp == re_privatevar(output) IN
    IF temp.found /\ temp.priv
    THEN Take(output, temp.pos - 1) \o <<doxy_cmd(level)>> \o Drop(output, temp.pos - 1)
    ELSE output

HidePrivateEnum(output, level) ==
    LET temp == re_privateenum(output) IN
    IF temp > 0
    THEN Take(output, temp - 1) \o <<doxy_cmd(level)>> \o Drop(output, temp - 1)
    ELSE output

HidePrivate(R) ==
    IF hide_private_symbols /\ (R.block_level = 0 \/ (R.want_class_end /\ R.block_level = 1))
    THEN [R EXCEPT !.output = HidePrivateEnum(HidePrivateVar(@, R.block_level), R.block_level)]
    ELSE R

(***************************************************************************)
(* filter_part, constructor, function and require / import.                *)
(***************************************************************************)
ClassNameText(name) == IF name = "" THEN <<>> ELSE <<name>>

ReplaceConstructor(output, name) ==
    LET constr == Find(output, "constructor") IN
    IF constr = 0 THEN output
    ELSE IF ~keep_constructor
         THEN Take(output, constr - 1) \o ClassNameText(name) \o Drop(output, constr)
         ELSE Take(output, constr) \o <<SP>> \o ClassNameText(name) \o Drop(output, constr)

ReplaceFunction(output) ==
    LET temp == Find(output, "function") IN
    IF keep_function \/ temp = 0 THEN output
    ELSE Take(output, temp - 1) \o Drop(output, temp)

ReplaceCall(output, kw) ==
    LET temp == re_call(output, kw) IN
    IF temp.pos = 0 THEN output
    ELSE Take(output, temp.pos - 1) \o <<INCLUDE>> \o Drop(output, temp.end)

(***************************************************************************)
(* end_of_block: old_output is R.output.                                   *)
(***************************************************************************)
end_of_block(R, last_part) ==
    LET level == R.block_level - 1
        old_output == R.output \o last_part
    IN  IF level = 0 /\ R.want_class_end
        THEN IF R.cur_class = 0
             THEN [R EXCEPT !.block_level = level,
                            !.outbuf = @ \o old_output,
                            !.appended = @ \o old_output,
                            !.err = "attribute"]
             ELSE [R EXCEPT !.block_level = level,
                            !.classes[R.cur_class].output_buffer = R.outbuf \o old_output,
                            !.outbuf = <<>>,
                            !.appended = @ \o old_output,
                            !.output = <<"}">>,
                            !.span_out = @ \o last_part \o <<"}">>]
        ELSE [R EXCEPT !.block_level = level,
                       !.output = old_output \o <<"}">>,
                       !.span_out = @ \o last_part \o <<"}">>]

(***************************************************************************)
(* check_end_of_class: R.part is the text after the closing brace.         *)
(***************************************************************************)
check_end_of_class_AlwaysAdds(R, part) ==
    LET part1 == <<";">> \o part
    IN  IF R.want_class_end /\ R.block_level = 0
        THEN [R EXCEPT !.want_class_end = FALSE, !.cur_class = 0, !.part = part1]
        ELSE [R EXCEPT !.part = part1]

check_end_of_class_(R, part) ==
    LET block_end == re_classend(part)
        part1 == IF block_end THEN part ELSE <<";">> \o part
    IN  IF R.want_class_end /\ R.block_level = 0
        THEN [R EXCEPT !.want_class_end = FALSE, !.cur_class = 0, !.part = part1]
        ELSE [R EXCEPT !.part = part1]

(***************************************************************************)
(* The test that ends the loop of parse_blocks with a ValueError.          *)
(***************************************************************************)
LevelOutOfRange_NoUnderflow(level) == level > MAX_BLOCK_LEVEL

LevelOutOfRange(level) == level < 0 \/ level > MAX_BLOCK_LEVEL

(***************************************************************************)
(* parse_blocks: one call is the loop from the state R, with R.part the    *)
(* text still to look at and R.output the text produced so far.            *)
(***************************************************************************)
RECURSIVE parse_blocks(_)
parse_blocks(R) ==
    LET part == R.part
        blockstart == Find(part, "{")
        blockend == Find(part, "}")
        opened == [R EXCEPT !.block_level = @ + 1,
                            !.output = @ \o Take(part, blockstart),
                            !.span_out = @ \o Take(part, blockstart),
                            !.part = Drop(part, blockstart)]
        closed == LET R1 == end_of_block(R, Take(part, blockend - 1)) IN
                  IF R1.err # "none" THEN R1
                  ELSE check_end_of_class_(R1, Drop(part, blockend))
        next == IF blockstart > 0 /\ (blockend = 0 \/ blockstart < blockend)
                THEN opened ELSE closed
    IN  IF blockstart = 0 /\ blockend = 0
        THEN [R EXCEPT !.output = @ \o part, !.span_out = @ \o part, !.part = <<>>]
        ELSE IF next.err # "none" THEN next
        ELSE IF LevelOutOfRange(next.block_level) THEN [next EXCEPT !.err = "depth"]
        ELSE parse_blocks(next)

BracePass(R) ==
    IF check_end_of_class
    THEN parse_blocks([R EXCEPT !.part = R.output, !.output = <<>>,
                                !.span_in = R.output, !.span_out = <<>>])
    ELSE R

(***************************************************************************)
(* filter_part: the rules in the order of the code; an exception leaves    *)
(* the fields as they are at the point where it is raised.  Each step is   *)
(* applied to the value of the step before it.                             *)
(***************************************************************************)
ReplaceKeywords(R) ==
    [R EXCEPT !.output =
        ReplaceCall(ReplaceCall(ReplaceFunction(
            ReplaceConstructor(@, R.current_class)), "require"), "import")]

AddToBuffer(R) == [R EXCEPT !.outbuf = @ \o R.output, !.appended = @ \o R.output]

Raised(R) == R.err # "none"

filter_part(R0, part) ==
    LET S1 == {ClassDeclaration([R0 EXCEPT !.output = ReplaceExtends(ReplaceAssignment(part))])}
        S2 == {TrackFunctions(r) : r \in S1}
        S3 == {IF Raised(r) THEN r ELSE HidePrivate(r) : r \in S2}
        S4 == {IF Raised(r) THEN r ELSE ReplaceKeywords(r) : r \in S3}
        S5 == {IF Raised(r) THEN r ELSE BracePass(r) : r \in S4}
        S6 == {IF Raised(r) THEN r ELSE AddToBuffer(r) : r \in S5}
    IN  CHOOSE r \in S6 : TRUE

(***************************************************************************)
(* filter_part up to the call of parse_blocks: the text the brace pass is  *)
(* given and the fields it starts from.                                    *)
(***************************************************************************)
BeforeBraces(R0, part) ==
    LET S1 == {ClassDeclaration([R0 EXCEPT !.output = ReplaceExtends(ReplaceAssignment(part))])}
        S2 == {TrackFunctions(r) : r \in S1}
        S3 == {IF Raised(r) THEN r ELSE HidePrivate(r) : r \in S2}
        S4 == {IF Raised(r) THEN r ELSE ReplaceKeywords(r) : r \in S3}
    IN  CHOOSE r \in S4 : TRUE

(***************************************************************************)
(* first_match: which of the three markers starts first in the line.       *)
(* An argument of 0 is a search that found nothing.                        *)
(***************************************************************************)
MAX_POS_ON_LINE == 999999

first_match(ml_comment, sl_comment, str_start) ==
    LET pos_ml == IF ml_comment = 0 THEN MAX_POS_ON_LINE ELSE ml_comment
        pos_sl == IF sl_comment = 0 THEN MAX_POS_ON_LINE ELSE sl_comment
        pos_str == IF str_start = 0 THEN MAX_POS_ON_LINE ELSE str_start
    IN  IF ml_comment = 0 /\ sl_comment = 0 /\ str_start = 0 THEN "none"
        ELSE IF pos_ml < pos_sl /\ pos_ml < pos_str THEN "ml"
        ELSE IF pos_sl < pos_ml /\ pos_sl < pos_str THEN "sl"
        ELSE "str"

ml_start == Find(temp_line, "/*")
sl_start == Find(temp_line, "//")
str_start == Find(temp_line, QUOTE)
next_match == first_match(ml_start, sl_start, str_start)

(***************************************************************************)
(* The lines a file is made of.                                            *)
(***************************************************************************)
L_ClassA == <<"class", SP, "A", SP, "{", NL>>
L_ClassB == <<"class", SP, "B", NL>>
L_ClassPriv == <<"class", SP, "A", SP, "{", SP, "_x", SP, "=", SP, "1", ";", SP, "}", NL>>
L_Open == <<"{", NL>>
L_Close == <<"}", NL>>
L_Semi == <<";", NL>>
L_CloseTerm == <<"}", SP, ";", SP, "}", NL>>
L_Member == <<SP, "function", SP, "f", "(", ")", NL>>
L_ExtAf == <<"function", SP, "A", "::", "f", "(", "a", ",", NL>>
L_ParamsEnd == <<SP, "b", ")", NL>>
L_ExtBg == <<"function", SP, "B", "::", "g", "(", ")", NL>>
L_Priv == <<"_x", SP, "=", SP, "1", ";", NL>>
L_String == <<"x", SP, "=", SP, QUOTE, "}", "<-", QUOTE, ";", NL>>
L_Unterminated == <<"y", SP, "=", SP, QUOTE, "{", NL>>
L_BlockComment == <<"x", SP, "/*", SP, "{", NL>>
L_BlockEnd == <<SP, "}", SP, "*/", SP, "}", NL>>
L_LineComment == <<"{", SP, "//", SP, "}", NL>>
L_Deep == Rep("{", DeepBraces) \o <<NL>>
L_NestedB == <<"class", SP, "B", SP, "}", NL>>
L_Reopen == <<"function", SP, "B", "::", "g", "(", ")", SP, "/*", SP, "*/", SP, "{", SP, "}", NL>>
L_CloseSemi == <<"}", SP, ";", NL>>
L_ClassTwice == <<"class", SP, "B", SP, "extends", SP, "A", SP, "extends", SP, "A", SP, "{", SP,
                  "constructor", "(", ")", SP, "constructor", "(", ")", SP,
                  "function", SP, "f", "(", ")", SP, "function", SP, "g", "(", ")", SP, "}", NL>>
L_ClassThenExt == <<"class", SP, "A", SP, "{", SP, "}", SP, "/*", SP, "*/", SP,
                    "function", SP, "A", "::", "f", "(", "a", ",", NL>>
L_StringComment == <<"x", SP, "=", SP, QUOTE, "/*", QUOTE, ";", NL>>
L_Twice == <<"x", SP, "<-", SP, "y", SP, "<-", SP, "1", ";", SP,
             "require", "(", "a", ")", SP, "require", "(", "b", ")", SP,
             "import", "(", "a", ")", SP, "import", "(", "b", ")", SP,
             "{", SP, "}", SP, "{", SP, "}", NL>>
L_Block == <<"{", SP, "}", NL>>
L_ClassF == <<"class", SP, "A", SP, "{", SP, "function", SP, "f", "(", ")", SP, "}", NL>>

Lines == {L_ClassA, L_ClassB, L_ClassPriv, L_Open, L_Close, L_Semi, L_CloseTerm, L_Member,
          L_ExtAf, L_ParamsEnd, L_ExtBg, L_Priv, L_String, L_Unterminated,
          L_BlockComment, L_BlockEnd, L_LineComment, L_Deep,
          L_NestedB, L_Reopen, L_CloseSemi, L_ClassTwice, L_ClassThenExt,
          L_StringComment, L_Twice, L_Block, L_ClassF}

(***************************************************************************)
(* The state after SquirrelFilter.__init__, with the file not yet read.    *)
(***************************************************************************)
Init ==
    /\ lines = <<>>
    /\ lineno = 0
    /\ temp_line = <<>>
    /\ pc = "read"
    /\ err = "none"
    /\ in_multiline_comment = FALSE
    /\ current_class = ""
    /\ want_class_start = FALSE
    /\ want_class_end = FALSE
    /\ block_level = 0
    /\ classes = <<>>
    /\ cur_class = 0
    /\ outbuf = <<>>
    /\ need_function_params = FALSE
    /\ params_buf = <<>>
    /\ written = <<>>
    /\ warnings = 0
    /\ span_in = <<>>
    /\ span_out = <<>>
    /\ appended = <<>>

(***************************************************************************)
(* Storing the fields a call of filter_part left behind; the text given    *)
(* is appended to outbuf after the call when no exception was raised.      *)
(***************************************************************************)
Store(R, copied) ==
    /\ current_class' = R.current_class
    /\ want_class_start' = R.want_class_start
    /\ want_class_end' = R.want_class_end
    /\ block_level' = R.block_level
    /\ classes' = R.classes
    /\ cur_class' = R.cur_class
    /\ need_function_params' = R.need_function_params
    /\ params_buf' = R.params_buf
    /\ span_in' = R.span_in
    /\ span_out' = R.span_out
    /\ err' = R.err
    /\ outbuf' = IF R.err = "none" THEN R.outbuf \o copied ELSE R.outbuf
    /\ appended' = IF R.err = "none" THEN R.appended \o copied ELSE R.appended

filter_fields == <<current_class, want_class_start, want_class_end, block_level,
                   classes, cur_class, need_function_params, params_buf,
                   span_in, span_out, err>>

(***************************************************************************)
(* filter: the loop over the lines hands the next line to line_handler.    *)
(***************************************************************************)
ReadLine ==
    /\ pc = "read"
    /\ lineno < MaxLines
    /\ \E line \in Lines :
          /\ lines' = Append(lines, line)
          /\ temp_line' = line
    /\ lineno' = lineno + 1
    /\ pc' = "line"
    /\ UNCHANGED <<filter_fields, in_multiline_comment, outbuf, appended, written, warnings>>

(***************************************************************************)
(* line_handler, one iteration of its loop inside a multi line comment.    *)
(***************************************************************************)
CommentContinues ==
    /\ pc = "line"
    /\ in_multiline_comment
    /\ Find(temp_line, "*/") = 0
    /\ outbuf' = outbuf \o temp_line
    /\ appended' = appended \o temp_line
    /\ temp_line' = <<>>
    /\ pc' = "read"
    /\ UNCHANGED <<filter_fields, in_multiline_comment, lines, lineno, written, warnings>>

CommentEnds ==
    /\ pc = "line"
    /\ in_multiline_comment
    /\ Find(temp_line, "*/") > 0
    /\ in_multiline_comment' = FALSE
    /\ outbuf' = outbuf \o Take(temp_line, Find(temp_line, "*/"))
    /\ appended' = appended \o Take(temp_line, Find(temp_line, "*/"))
    /\ temp_line' = Drop(temp_line, Find(temp_line, "*/"))
    /\ UNCHANGED <<filter_fields, pc, lines, lineno, written, warnings>>

(***************************************************************************)
(* line_handler, one iteration of its loop outside a multi line comment.   *)
(***************************************************************************)
PlainRest ==
    /\ pc = "line"
    /\ ~in_multiline_comment
    /\ next_match = "none"
    /\ \E R \in {filter_part(Self, temp_line)} :
          /\ Store(R, <<>>)
          /\ pc' = IF R.err = "none" THEN "read" ELSE "error"
    /\ temp_line' = <<>>
    /\ UNCHANGED <<in_multiline_comment, lines, lineno, written, warnings>>

CommentStarts ==
    /\ pc = "line"
    /\ ~in_multiline_comment
    /\ next_match = "ml"
    /\ in_multiline_comment' = TRUE
    /\ \E R \in {filter_part(Self, Take(temp_line, ml_start))} :
          /\ Store(R, <<>>)
          /\ pc' = IF R.err = "none" THEN "line" ELSE "error"
    /\ temp_line' = Drop(temp_line, ml_start)
    /\ UNCHANGED <<lines, lineno, written, warnings>>

LineComment ==
    /\ pc = "line"
    /\ ~in_multiline_comment
    /\ next_match = "sl"
    /\ \E R \in {filter_part(Self, Take(temp_line, sl_start - 1))} :
          /\ Store(R, Drop(temp_line, sl_start - 1))
          /\ pc' = IF R.err = "none" THEN "read" ELSE "error"
    /\ temp_line' = <<>>
    /\ UNCHANGED <<in_multiline_comment, lines, lineno, written, warnings>>

(***************************************************************************)
(* The end of the string is searched from the opening quote on, in the     *)
(* text that starts with that quote.                                       *)
(***************************************************************************)
StringStarts ==
    /\ pc = "line"
    /\ ~in_multiline_comment
    /\ next_match = "str"
    /\ \E R \in {filter_part(Self, Take(temp_line, str_start - 1))} :
       LET rest == Drop(temp_line, str_start - 1)
           str_end == Find(rest, QUOTE)
       IN  IF R.err # "none"
           THEN /\ Store(R, <<>>)
                /\ pc' = "error"
                /\ temp_line' = temp_line
                /\ warnings' = warnings
           ELSE IF str_end = 0
           THEN /\ Store(R, rest)
                /\ pc' = "read"
                /\ temp_line' = <<>>
                /\ warnings' = warnings + 1
           ELSE /\ Store(R, Take(rest, str_end))
                /\ pc' = "line"
                /\ temp_line' = Drop(rest, str_end)
                /\ warnings' = warnings
    /\ UNCHANGED <<in_multiline_comment, lines, lineno, written>>

(***************************************************************************)
(* filter, after the last line: the buffer of every class, its missing     *)
(* functions, then the buffer after the last class.  WriteBuf writes at    *)
(* once, so what was written before an IndexError stays written.           *)
(***************************************************************************)
function_str == IF keep_function THEN <<"function", SP>> ELSE <<>>

RECURSIVE WriteMissing(_, _, _)
WriteMissing(classdata, idx, out) ==
    IF idx > Len(classdata.missing) THEN [written |-> out, err |-> "none"]
    ELSE IF idx > Len(classdata.params) THEN [written |-> out, err |-> "params"]
    ELSE WriteMissing(classdata, idx + 1,
             out \o function_str \o <<classdata.missing[idx]>>
                 \o classdata.params[idx] \o <<";", NL>>)

RECURSIVE WriteClasses(_, _, _)
WriteClasses(cls, i, out) ==
    IF i > Len(cls) THEN [written |-> out, err |-> "none"]
    ELSE LET w == WriteMissing(cls[i], 1, out \o cls[i].output_buffer) IN
         IF w.err # "none" THEN w ELSE WriteClasses(cls, i + 1, w.written)

Emit ==
    /\ pc = "read"
    /\ \E w \in {WriteClasses(classes, 1, <<>>)} :
          /\ written' = IF w.err = "none" THEN w.written \o outbuf ELSE w.written
          /\ err' = w.err
          /\ pc' = IF w.err = "none" THEN "done" ELSE "error"
    /\ UNCHANGED <<lines, lineno, temp_line, in_multiline_comment, current_class,
                   want_class_start, want_class_end, block_level, classes, cur_class,
                   outbuf, need_function_params, params_buf, warnings, span_in, span_out,
                   appended>>

Next ==
    \/ ReadLine
    \/ CommentContinues
    \/ CommentEnds
    \/ PlainRest
    \/ CommentStarts
    \/ LineComment
    \/ StringStarts
    \/ Emit

Spec == Init /\ [][Next]_vars

(***************************************************************************)
(* filter is sequential code and waits for nothing: while a loop of the    *)
(* scan or the emission is still ahead (Running, the states where a step   *)
(* of Next can be taken) the next step is taken.  Advance is that step     *)
(* seen on the position of the run only (the phase, the count of lines     *)
(* read, the rest of the line): every step of Next is a step of Advance    *)
(* that changes the position, and Advance can be taken exactly in the      *)
(* Running states.                                                         *)
(***************************************************************************)
Running == pc \in {"read", "line"}

position == <<pc, lineno, temp_line>>

Advance ==
    /\ Running
    /\ pc' \in {"read", "line", "done", "error"}
    /\ lineno' \in {lineno, lineno + 1}
    /\ temp_line' \in Lines \cup {Drop(temp_line, k) : k \in 0..Len(temp_line)}

SpecLive == Spec /\ WF_position(Advance)

TypeOK ==
    /\ pc \in {"read", "line", "done", "error"}
    /\ err \in {"none", "depth", "index", "attribute", "params"}
    /\ lineno = Len(lines)
    /\ cur_class \in 0..Len(classes)

(***************************************************************************)
(* Helpers of the properties.                                              *)
(***************************************************************************)
RECURSIVE Flatten(_)
Flatten(ss) == IF ss = <<>> THEN <<>> ELSE Head(ss) \o Flatten(Tail(ss))

IsSuffix(x, s) == Len(x) <= Len(s) /\ SubSeq(s, Len(s) - Len(x) + 1, Len(s)) = x

(* The stub lines of one class record, as the output is meant to show them. *)
RECURSIVE StubText(_, _)
StubText(cd, idx) ==
    IF idx > Len(cd.missing) \/ idx > Len(cd.params) THEN <<>>
    ELSE <<"function", SP, cd.missing[idx]>> \o cd.params[idx] \o <<";", NL>>
         \o StubText(cd, idx + 1)

(* x occurs in w and is directly followed by a terminator. *)
OccursTerminated(w, x) ==
    \E k \in 0..(Len(w) - Len(x)) :
        /\ SubSeq(w, k + 1, k + Len(x)) = x
        /\ re_classend(Drop(w, k + Len(x)))

Sealed(cd) == cd.output_buffer # <<>>

(***************************************************************************)
(* C1: once the output is written, for every class whose closing brace     *)
(* was recognised the output holds the segment of the class, then one      *)
(* stub per missing function of that class, then at once the closing       *)
(* brace and a terminator.                                                 *)
(***************************************************************************)
C1_StubsBeforeClosingBrace ==
    pc = "done" =>
        \A i \in 1..Len(classes) :
            Sealed(classes[i]) =>
                OccursTerminated(written,
                    classes[i].output_buffer \o StubText(classes[i], 1) \o <<"}">>)

(***************************************************************************)
(* C2: while the scan goes on the block level is between 0 and 50; the     *)
(* brace that takes it to -1 or to 51 ends the run with the ValueError of  *)
(* parse_blocks, and nothing else raises that error.                       *)
(***************************************************************************)
C2_DepthInRange ==
    /\ pc # "error" => block_level \in 0..MAX_BLOCK_LEVEL
    /\ err = "depth" <=> block_level \notin 0..MAX_BLOCK_LEVEL
    /\ err = "depth" => pc = "error" /\ block_level \in {-1, MAX_BLOCK_LEVEL + 1}

C2_Witness == err = "depth" /\ block_level = MAX_BLOCK_LEVEL + 1

(***************************************************************************)
(* The nesting depth of a text as the specification defines it: braces in  *)
(* comments and in string literals do not count; a string ends at its      *)
(* closing quote or at the end of its line.  The result is -1 after a      *)
(* closing brace at depth 0 and -2 after more than 50 open braces.         *)
(***************************************************************************)

RECURSIVE RefLine(_, _, _, _)
RefLine(toks, i, mode, depth) ==
    IF i > Len(toks) \/ depth < 0 THEN [mode |-> mode, depth |-> depth]
    ELSE LET t == toks[i] IN
         CASE mode = "block" ->
                  RefLine(toks, i + 1, IF t = "*/" THEN "code" ELSE "block", depth)
           [] mode = "line" ->
                  RefLine(toks, i + 1, IF t = NL THEN "code" ELSE "line", depth)
           [] mode = "string" ->
                  RefLine(toks, i + 1, IF t \in {QUOTE, NL} THEN "code" ELSE "string", depth)
           [] OTHER ->
                  IF t = "/*" THEN RefLine(toks, i + 1, "block", depth)
                  ELSE IF t = "//" THEN RefLine(toks, i + 1, "line", depth)
                  ELSE IF t = QUOTE THEN RefLine(toks, i + 1, "string", depth)
                  ELSE IF t = "{" THEN
                       RefLine(toks, i + 1, "code",
                               IF depth = MAX_BLOCK_LEVEL THEN -2 ELSE depth + 1)
                  ELSE IF t = "}" THEN
                       RefLine(toks, i + 1, "code", IF depth = 0 THEN -1 ELSE depth - 1)
                  ELSE RefLine(toks, i + 1, "code", depth)

RECURSIVE RefDepth(_, _, _, _)
RefDepth(ls, k, mode, depth) ==
    IF k > Len(ls) \/ depth < 0 THEN depth
    ELSE LET r == RefLine(ls[k], 1, mode, depth) IN RefDepth(ls, k + 1, r.mode, r.depth)

FileDepth == RefDepth(lines, 1, "code", 0)

(***************************************************************************)
(* C3: a file whose braces outside comments and strings are balanced is    *)
(* scanned without the fatal error and leaves the block level at 0; a      *)
(* file with a closing brace too many raises the fatal error.              *)
(***************************************************************************)
C3_BalancedReturnsToZero ==
    /\ FileDepth = 0 => /\ err # "depth"
                        /\ pc \in {"read", "done"} => block_level = 0
    /\ (FileDepth = -1 /\ pc \in {"read", "done"}) => err = "depth"

(***************************************************************************)
(* C4: a string literal, from its opening quote to its closing quote, is   *)
(* copied to the output as it is and the scan goes on behind the closing   *)
(* quote, so that nothing inside the literal reaches filter_part.          *)
(***************************************************************************)
StringAhead ==
    /\ pc = "line" /\ ~in_multiline_comment /\ next_match = "str"
    /\ Find(Drop(temp_line, str_start), QUOTE) > 0

ClosingQuote == str_start + Find(Drop(temp_line, str_start), QUOTE)

(* C4: the step that meets a string literal copies the whole literal and
   goes on behind its closing quote. *)
C4_StringCopiedUnmodified ==
    [][StringAhead =>
          \/ pc' = "error"
          \/ /\ temp_line' = Drop(temp_line, ClosingQuote)
             /\ IsSuffix(SubSeq(temp_line, str_start, ClosingQuote), outbuf')]_vars

(***************************************************************************)
(* C5: what the brace pass makes of a span, as the claim has it: every     *)
(* closing brace that no terminator follows gets one, right behind it,     *)
(* and nothing else changes.                                               *)
(***************************************************************************)
RECURSIVE Terminated(_, _)
Terminated(s, i) ==
    IF i > Len(s) THEN <<>>
    ELSE IF s[i] = "}" /\ ~re_classend(Drop(s, i))
         THEN <<"}", ";">> \o Terminated(s, i + 1)
         ELSE <<s[i]>> \o Terminated(s, i + 1)

(* a closing brace followed by two terminators with white space only *)
Doubled(s) ==
    \E i \in 1..Len(s) :
        /\ s[i] = "}"
        /\ re_classend(Drop(s, i))
        /\ re_classend(Drop(s, Find(Drop(s, i), ";") + i))

(* C5, as claimed: the filter never makes a doubled terminator: the output
   has one behind a brace only where the file has one. *)
C5_NoDoubledTerminator ==
    (Doubled(outbuf) \/ \E i \in 1..Len(classes) : Doubled(classes[i].output_buffer))
        => Doubled(Flatten(lines))

(* C5, as amended: the terminator is looked for in the rest of the span
   only: the text of the last completed brace pass is its span with a
   terminator put behind every closing brace that none follows in the span. *)
C5_SpanTerminated ==
    err \notin {"depth", "attribute"} => span_out = Terminated(span_in, 1)

C5_Witness ==
    /\ err = "none"
    /\ \E i \in 1..Len(span_in) : span_in[i] = "}" /\ re_classend(Drop(span_in, i))
    /\ \E i \in 1..Len(span_in) : span_in[i] = "}" /\ ~re_classend(Drop(span_in, i))

(***************************************************************************)
(* C6: a run ends with an exception only through the test of the block     *)
(* level in parse_blocks.                                                  *)
(***************************************************************************)
C6_OnlyDepthAborts == pc = "error" => err = "depth"

(***************************************************************************)
(* C7: when the output is written every class record has one parameter     *)
(* list per missing function.                                              *)
(***************************************************************************)
C7_ParamsForEveryMissing ==
    (pc = "done" \/ err = "params") =>
        \A i \in 1..Len(classes) : Len(classes[i].params) = Len(classes[i].missing)

(***************************************************************************)
(* C8, as claimed: want_class_start and want_class_end are never both set. *)
(***************************************************************************)
C8_FlagsExclusive == ~(want_class_start /\ want_class_end)

(* C8, as amended: the two flags get both set only by a step that
   registers a class while want_class_end is set already, that is by a
   class declared inside the body of a class. *)
C8_BothOnlyWhenNested ==
    [][((want_class_start' /\ want_class_end') /\ ~(want_class_start /\ want_class_end))
          => (want_class_end /\ Len(classes') = Len(classes) + 1)]_vars

C8_Witness == want_class_start /\ want_class_end

(***************************************************************************)
(* C9: a quote with no closing quote behind it on the line: the warning    *)
(* is written, the rest of the line from the quote on goes to the output   *)
(* as it is, and the scan goes on with the next line.                      *)
(***************************************************************************)
UnterminatedAhead ==
    /\ pc = "line" /\ ~in_multiline_comment /\ next_match = "str"
    /\ Find(Drop(temp_line, str_start), QUOTE) = 0

(* C9: the step that meets an unterminated string writes the warning,
   copies the rest of the line and ends the line. *)
C9_UnterminatedStringWarns ==
    [][UnterminatedAhead =>
          \/ pc' = "error"
          \/ /\ warnings' = warnings + 1
             /\ pc' = "read"
             /\ IsSuffix(Drop(temp_line, str_start - 1), outbuf')]_vars

(***************************************************************************)
(* C10: where a private variable assignment stands.  ScopeAt follows the   *)
(* braces and class declarations of the span up to position p, starting    *)
(* from the block level and the flags the span is entered with, and gives  *)
(* the depth at p and whether p is inside a class body.                    *)
(***************************************************************************)
RECURSIVE ScopeAt(_, _, _, _, _, _)
ScopeAt(span, i, p, d, pending, inside) ==
    IF i >= p THEN [depth |-> d, inside |-> inside]
    ELSE LET t == span[i] IN
         IF t = "class" /\ i + 1 <= Len(span) /\ IsWs(span[i + 1])
            /\ SkipWs(span, i + 1) <= Len(span) /\ IsName(span[SkipWs(span, i + 1)])
         THEN ScopeAt(span, i + 1, p, d, TRUE, inside)
         ELSE IF t = "{"
         THEN ScopeAt(span, i + 1, p, d + 1, FALSE, inside \/ pending)
         ELSE IF t = "}"
         THEN ScopeAt(span, i + 1, p, d - 1, pending, inside /\ d - 1 # 0)
         ELSE ScopeAt(span, i + 1, p, d, pending, inside)

(* the span the next iteration of line_handler hands to filter_part *)
CurSpan ==
    CASE next_match = "ml" -> Take(temp_line, ml_start)
      [] next_match = "sl" -> Take(temp_line, sl_start - 1)
      [] next_match = "str" -> Take(temp_line, str_start - 1)
      [] OTHER -> temp_line

PrivateAssignmentAhead ==
    /\ pc = "line" /\ ~in_multiline_comment
    /\ re_privatevar(CurSpan).found /\ re_privatevar(CurSpan).priv
    /\ Find(CurSpan, CurSpan[re_privatevar(CurSpan).pos]) = re_privatevar(CurSpan).pos

ExpectedMarker ==
    LET p == re_privatevar(CurSpan).pos
        at == ScopeAt(CurSpan, 1, p, block_level, want_class_start, want_class_end)
    IN  IF at.depth = 0 /\ ~at.inside THEN INTERNAL
        ELSE IF at.depth = 1 /\ at.inside THEN PRIVATE
        ELSE "none"

MarkerBefore(s, name) ==
    LET j == Find(s, name) IN
    IF j > 1 /\ s[j - 1] \in {INTERNAL, PRIVATE} THEN s[j - 1] ELSE "none"

(* C10: a private variable assignment gets the internal marker at depth 0
   outside a class, the private marker at depth 1 inside a class body, and
   no marker anywhere else, the depth being the one at the assignment. *)
C10_MarkerByPosition ==
    [][(PrivateAssignmentAhead /\ err' = "none") =>
          MarkerBefore(span_out', CurSpan[re_privatevar(CurSpan).pos]) = ExpectedMarker]_vars

(***************************************************************************)
(* C11: the segment of a class record is assigned once: a step changes     *)
(* output_buffer only for a record that has none yet, and only when the    *)
(* span of the step holds a closing brace; a record that has its segment   *)
(* keeps it, and keeps its functions list, for the rest of the scan.       *)
(***************************************************************************)
C11_SegmentSealedOnce ==
    [][\A i \in 1..Len(classes) :
          /\ classes'[i].output_buffer # classes[i].output_buffer
                => ~Sealed(classes[i]) /\ Find(CurSpan, "}") > 0
          /\ Sealed(classes[i])
                => /\ classes'[i].output_buffer = classes[i].output_buffer
                   /\ classes'[i].functions = classes[i].functions]_vars

(***************************************************************************)
(* C12: the rewrite rules applied a second time.  The span is the one the  *)
(* next iteration of line_handler hands to filter_part; its rewritten text *)
(* is handed to filter_part again, in the scan state the span was met in.  *)
(* A non-class span holds no class declaration and is not awaited as the   *)
(* start of a class body.  The markers of the scripting language are the   *)
(* constructs the substitution rules look for.                             *)
(***************************************************************************)
ScriptMarkers == {"<-", "extends", "constructor", "function", "class", "enum",
                  "require", "import"}

NoMarker(s) == \A i \in 1..Len(s) : s[i] \notin ScriptMarkers

NoPrivateName(s) == \A i \in 1..Len(s) : ~StartsWithUnderscore(s[i])

NonClassSpan ==
    /\ pc = "line" /\ ~in_multiline_comment
    /\ ~want_class_start
    /\ re_classname(CurSpan).pos = 0

FilterStep == pc = "line" /\ ~in_multiline_comment

Depth(s, p, d) ==
    d + Cardinality({i \in 1..(p - 1) : s[i] = "{"})
      - Cardinality({i \in 1..(p - 1) : s[i] = "}"})

CutPos(s, d) == FirstIn({p \in 1..Len(s) : s[p] = "}" /\ Depth(s, p, d) = 1})

Closers(s, p) == Cardinality({i \in 1..p : s[i] = "}"})

NthClose(s, k) == FirstIn({q \in 1..Len(s) : s[q] = "}" /\ Closers(s, q) = k})

(* C13: a closing brace that takes the level to 0 while want_class_end is
   set makes outbuf plus the text of the span before the brace the buffer
   of the current class, clears want_class_end and cur_class and starts the
   new outbuf with the brace and a terminator; a step without such a brace
   leaves every class buffer as it is and only adds to outbuf. *)
C13_CutProtocol ==
    [][FilterStep =>
          \A B \in {BeforeBraces(Self, CurSpan)} :
              (~Raised(B) /\ err' # "depth") =>
                  LET p == IF B.want_class_end THEN CutPos(B.output, B.block_level) ELSE 0
                      q == NthClose(span_out', Closers(B.output, p))
                  IN  IF p > 0
                      THEN /\ err' = "none"
                           /\ B.cur_class # 0
                           /\ classes'[B.cur_class].output_buffer
                                  = outbuf \o Take(span_out', q - 1)
                           /\ ~want_class_end'
                           /\ cur_class' = 0
                           /\ Take(outbuf', Len(span_out') - q + 1) = Drop(span_out', q - 1)
                           /\ re_classend(Drop(span_out', q))
                      ELSE /\ err' = "none"
                           /\ \A i \in 1..Len(classes) :
                                  classes'[i].output_buffer = classes[i].output_buffer
                           /\ Take(outbuf', Len(outbuf)) = outbuf]_vars

(***************************************************************************)
(* C14: the functions a file declares inside class bodies, read from the   *)
(* text of the file: a class body opens at the first opening brace behind  *)
(* a class declaration and closes at the matching brace; text in comments  *)
(* and string literals does not count.  st holds the mode of the scan, the *)
(* depth, the class whose opening brace is awaited (pending), the class    *)
(* whose body is open (body) and the depth it was opened at (base).        *)
(***************************************************************************)
IsClassDecl(toks, i) ==
    /\ toks[i] = "class"
    /\ i + 1 <= Len(toks) /\ IsWs(toks[i + 1])
    /\ SkipWs(toks, i + 1) <= Len(toks)
    /\ IsName(toks[SkipWs(toks, i + 1)])

IsMemberDecl(toks, i) ==
    /\ toks[i] = "function"
    /\ i + 1 <= Len(toks) /\ IsWs(toks[i + 1])
    /\ SkipWs(toks, i + 1) <= Len(toks)
    /\ IsName(toks[SkipWs(toks, i + 1)])
    /\ ~(SkipWs(toks, i + 1) + 1 <= Len(toks) /\ toks[SkipWs(toks, i + 1) + 1] = "::")

RefCode(toks, i, st) ==
    LET t == toks[i] IN
    CASE t = "/*" -> [st EXCEPT !.mode = "block"]
      [] t = "//" -> [st EXCEPT !.mode = "line"]
      [] t = QUOTE -> [st EXCEPT !.mode = "string"]
      [] t = "class" /\ IsClassDecl(toks, i) ->
             [st EXCEPT !.pending = toks[SkipWs(toks, i + 1)]]
      [] t = "function" /\ IsMemberDecl(toks, i) /\ st.body # "" ->
             [st EXCEPT !.decl = @ \cup {<<st.body, toks[SkipWs(toks, i + 1)]>>}]
      [] t = "{" /\ st.pending # "" /\ st.body = "" ->
             [st EXCEPT !.depth = @ + 1, !.body = st.pending,
                        !.base = st.depth, !.pending = ""]
      [] t = "{" /\ ~(st.pending # "" /\ st.body = "") ->
             [st EXCEPT !.depth = @ + 1, !.pending = ""]
      [] t = "}" /\ st.body # "" /\ st.depth - 1 = st.base ->
             [st EXCEPT !.depth = @ - 1, !.body = ""]
      [] t = "}" /\ ~(st.body # "" /\ st.depth - 1 = st.base) ->
             [st EXCEPT !.depth = @ - 1]
      [] OTHER -> st

RefStep(toks, i, st) ==
    LET t == toks[i] IN
    CASE st.mode = "block" -> [st EXCEPT !.mode = IF t = "*/" THEN "code" ELSE "block"]
      [] st.mode = "line" -> [st EXCEPT !.mode = IF t = NL THEN "code" ELSE "line"]
      [] st.mode = "string" ->
             [st EXCEPT !.mode = IF t \in {QUOTE, NL} THEN "code" ELSE "string"]
      [] OTHER -> RefCode(toks, i, st)

RECURSIVE RefDeclLine(_, _, _)
RefDeclLine(toks, i, st) ==
    IF i > Len(toks) \/ st.depth < 0 THEN st
    ELSE RefDeclLine(toks, i + 1, RefStep(toks, i, st))

RECURSIVE RefDecl(_, _, _)
RefDecl(ls, k, st) ==
    IF k > Len(ls) \/ st.depth < 0 THEN st.decl
    ELSE RefDecl(ls, k + 1, RefDeclLine(ls[k], 1, st))

FileDecl ==
    RefDecl(lines, 1, [mode |-> "code", depth |-> 0, pending |-> "", body |-> "",
                       base |-> 0, decl |-> {}])

UniqueName(i) == \A j \in 1..Len(classes) : j # i => classes[j].classname # classes[i].classname

(* C14, as claimed, its last sentence: the output holds no stub for a
   function that the file declares inside the body of the class (a class
   whose name the file declares once). *)
C14_NoStubForDeclared ==
    pc = "done" =>
        \A i \in 1..Len(classes) : \A k \in 1..Len(classes[i].missing) :
            UniqueName(i) => <<classes[i].classname, classes[i].missing[k]>> \notin FileDecl

(***************************************************************************)
(* C14, the registration.  ExtDefAhead: the next span is handed to         *)
(* filter_part at level 0 outside a class body and the first definition    *)
(* with a scope operator in it is ExtDef.                                  *)
(***************************************************************************)
ExtDef == re_classfunctionname(CurSpan)

ExtDefAhead ==
    /\ FilterStep
    /\ block_level = 0 /\ ~want_class_end
    /\ ~want_class_start /\ re_classname(CurSpan).pos = 0
    /\ ExtDef.pos > 0

ExtClass == Find(class_names(classes), ExtDef.cname)

ExtRegistered ==
    /\ ExtClass > 0
    /\ ~IsDeclared(classes[ExtClass], ExtDef.fname)
    /\ ~StartsWithUnderscore(ExtDef.fname)

(* C14, the registration taken alone: the first definition with a scope
   operator of a span met at level 0 outside a class body is appended to
   missing of its class, and the capture of its parameters starts, exactly
   when the class is known, the name is not in functions of the class at
   that moment and the name is not private; otherwise no record gets a
   function and no capture starts. *)
C14_RegisteredExactlyWhen ==
    [][ExtDefAhead =>
          IF ExtRegistered
          THEN /\ classes'[ExtClass].missing = Append(classes[ExtClass].missing, ExtDef.fname)
               /\ \/ need_function_params'
                  \/ Len(classes'[ExtClass].params) > Len(classes[ExtClass].params)
               /\ \A i \in 1..Len(classes) :
                      /\ i # ExtClass => classes'[i].missing = classes[i].missing
                      /\ classes'[i].functions = classes[i].functions
          ELSE /\ Len(classes') = Len(classes)
               /\ \A i \in 1..Len(classes) :
                      /\ classes'[i].missing = classes[i].missing
                      /\ classes'[i].functions = classes[i].functions
                      /\ classes'[i].output_buffer = classes[i].output_buffer
               /\ need_function_params' => need_function_params
               /\ ~need_function_params => classes' = classes]_vars

(***************************************************************************)
(* C15: the capture of a parameter list.  Capturing: the next span is      *)
(* handed to filter_part while a capture is under way.  Owner(i): class i  *)
(* has a missing function whose parameter list is not recorded yet.        *)
(***************************************************************************)
Capturing == FilterStep /\ need_function_params

Owner(i) == Len(classes[i].missing) > Len(classes[i].params)

(* C15: while a capture is under way the text of a span without a closing
   parenthesis is added to params_buf; the span with the first closing
   parenthesis ends the capture, and params_buf plus the text of that span
   up to and including the parenthesis becomes the next parameter list of
   the class whose function is waiting for it. *)
C15_ParamsToSameFunction ==
    [][Capturing =>
          IF Find(CurSpan, ")") = 0
          THEN err' = "none" =>
                   /\ need_function_params'
                   /\ Take(params_buf', Len(params_buf)) = params_buf
                   /\ Len(params_buf') >= Len(params_buf) + Len(CurSpan)
          ELSE \A i \in 1..Len(classes) :
                   Owner(i) =>
                       /\ Len(classes'[i].params) > Len(classes[i].params)
                       /\ LET list == classes'[i].params[Len(classes[i].params) + 1]
                          IN  /\ Take(list, Len(params_buf)) = params_buf
                              /\ Find(list, ")") = Len(list)]_vars

(***************************************************************************)
(* C16: where a text stands, read from the file: in plain code, in a block *)
(* comment, in a line comment or in a string literal (which ends at its    *)
(* closing quote or with its line).  ModeAfter is the mode behind the      *)
(* tokens of toks from i on; LineStartMode the mode at the start of line   *)
(* k; Consumed the part of the current line line_handler is done with.     *)
(***************************************************************************)
RECURSIVE ModeAfter(_, _, _)
ModeAfter(toks, i, mode) ==
    IF i > Len(toks) THEN mode
    ELSE LET t == toks[i] IN
         ModeAfter(toks, i + 1,
             CASE mode = "block" -> IF t = "*/" THEN "code" ELSE "block"
               [] mode = "line" -> IF t = NL THEN "code" ELSE "line"
               [] mode = "string" -> IF t \in {QUOTE, NL} THEN "code" ELSE "string"
               [] OTHER -> IF t = "/*" THEN "block"
                           ELSE IF t = "//" THEN "line"
                           ELSE IF t = QUOTE THEN "string"
                           ELSE "code")

RECURSIVE LineStartMode(_)
LineStartMode(k) == IF k = 1 THEN "code" ELSE ModeAfter(lines[k - 1], 1, LineStartMode(k - 1))

Consumed == Len(lines[lineno]) - Len(temp_line)

ModeAtCommentStart ==
    ModeAfter(Take(lines[lineno], Consumed + ml_start - 1), 1, LineStartMode(lineno))

(* C16: in_multiline_comment gets set only by a comment start that stands
   in plain code; while it is set the text up to the first comment end, or
   the whole rest of the line, is added to outbuf as it is and no field of
   the scan changes; it stays set from one line to the next. *)
C16_BlockCommentOnlyInCode ==
    [][/\ (in_multiline_comment' /\ ~in_multiline_comment)
             => FilterStep /\ next_match = "ml" /\ ModeAtCommentStart = "code"
       /\ (pc = "line" /\ in_multiline_comment)
             => /\ UNCHANGED <<current_class, want_class_start, want_class_end, block_level,
                              classes, cur_class, need_function_params, params_buf, err>>
                /\ IF Find(temp_line, "*/") = 0
                   THEN in_multiline_comment' /\ outbuf' = outbuf \o temp_line
                   ELSE /\ ~in_multiline_comment'
                        /\ outbuf' = outbuf \o Take(temp_line, Find(temp_line, "*/"))
                        /\ temp_line' = Drop(temp_line, Find(temp_line, "*/"))
       /\ (pc = "read" /\ in_multiline_comment) => in_multiline_comment']_vars

(***************************************************************************)
(* C17: what one call of filter_part does to the constructs of a span.     *)
(* Proj keeps the tokens of a text that are in T, in their order;          *)
(* ReplaceFirst puts new in the place of the first t.  The text compared   *)
(* with the span is span_in, the text filter_part hands to parse_blocks    *)
(* after all its replacements.                                             *)
(***************************************************************************)
RECURSIVE Proj(_, _)
Proj(s, T) ==
    IF s = <<>> THEN <<>>
    ELSE IF Head(s) \in T THEN <<Head(s)>> \o Proj(Tail(s), T)
    ELSE Proj(Tail(s), T)

ReplaceFirst(s, t, new) ==
    LET a == Find(s, t) IN
    IF a = 0 THEN s ELSE Take(s, a - 1) \o new \o Drop(s, a)

Count(s, t) == Cardinality({i \in 1..Len(s) : s[i] = t})

AllCalls(s) ==
    \A i \in 1..Len(s) :
        s[i] \in {"require", "import"} => SkipWs(s, i + 1) <= Len(s) /\ s[SkipWs(s, i + 1)] = "("

ConstructorTokens(name) == {"constructor"} \cup (IF name = "" THEN {} ELSE {name})

(* C17: one call of filter_part replaces the first assignment arrow, the
   first extends, the first require call and the first import call of the
   span, puts the class name behind the first constructor, keeps every
   function keyword, and leaves every later occurrence as it is; the brace
   pass counts every brace of the span, in order, and puts a terminator
   behind every closing brace that has none. *)
C17_FirstOccurrenceOnly ==
    [][(FilterStep /\ err' = "none" /\ AllCalls(CurSpan)) =>
          /\ Proj(span_in', {"<-", "="}) = ReplaceFirst(Proj(CurSpan, {"<-", "="}), "<-", <<"=">>)
          /\ Proj(span_in', {"extends", ":"})
                 = ReplaceFirst(Proj(CurSpan, {"extends", ":"}), "extends", <<":">>)
          /\ Proj(span_in', ConstructorTokens(current_class'))
                 = ReplaceFirst(Proj(CurSpan, ConstructorTokens(current_class')), "constructor",
                                <<"constructor">> \o ClassNameText(current_class'))
          /\ Proj(span_in', {"function"}) = Proj(CurSpan, {"function"})
          /\ Proj(span_in', {"require", "import", INCLUDE})
                 = ReplaceFirst(ReplaceFirst(Proj(CurSpan, {"require", "import", INCLUDE}),
                                             "require", <<INCLUDE>>),
                                "import", <<INCLUDE>>)
          /\ Proj(span_out', {"{", "}"}) = Proj(CurSpan, {"{", "}"})
          /\ block_level' = block_level + Count(CurSpan, "{") - Count(CurSpan, "}")
          /\ span_out' = Terminated(span_in', 1)]_vars

C17_Witness ==
    /\ pc = "read" /\ err = "none"
    /\ Find(span_in, "=") > 0 /\ Find(span_in, "<-") > Find(span_in, "=")
    /\ Count(span_in, INCLUDE) = 2
    /\ Count(span_in, "require") = 1 /\ Count(span_in, "import") = 1
    /\ Count(span_in, "}") = 2 /\ Count(span_out, ";") = 3
    /\ block_level = 0

(***************************************************************************)
(* C18: the output against the additions to outbuf.  WithStubs is the      *)
(* text filter writes for the class records: for each record its buffer    *)
(* and its stubs; WithoutStubs is the same text with the stubs left out.   *)
(***************************************************************************)
RECURSIVE WithStubs(_, _)
WithStubs(cls, i) ==
    IF i > Len(cls) THEN <<>>
    ELSE cls[i].output_buffer \o StubText(cls[i], 1) \o WithStubs(cls, i + 1)

RECURSIVE WithoutStubs(_, _)
WithoutStubs(cls, i) ==
    IF i > Len(cls) THEN <<>>
    ELSE cls[i].output_buffer \o WithoutStubs(cls, i + 1)

(* C18: when the run has written its output, the output is the buffers of
   the classes with their stubs and then outbuf, and without the stubs it
   is the text that was added to outbuf during the scan, in the order of
   the additions. *)
C18_TextConserved ==
    pc = "done" =>
        /\ written = WithStubs(classes, 1) \o outbuf
        /\ WithoutStubs(classes, 1) \o outbuf = appended

(***************************************************************************)
(* C19: while want_class_end or need_function_params is set, cur_class is  *)
(* a class record (0 stands for None).                                     *)
(***************************************************************************)
C19_CurrentClassWhenNeeded ==
    (want_class_end \/ need_function_params) => cur_class \in 1..Len(classes)

(***************************************************************************)
(* C20: every run of the filter comes to the emission (the output is       *)
(* written, or the emission itself fails on a missing parameter list) or   *)
(* to the error of parse_blocks.                                           *)
(***************************************************************************)
C20_ReachesEmissionOrDepthError ==
    <>(pc = "done" \/ err \in {"depth", "params"})

(* C20, the loop of line_handler taken alone: an iteration that does not
   end the loop leaves a shorter rest of the line. *)
C20_LineLoopShortens ==
    [][(pc = "line" /\ pc' = "line") => Len(temp_line') < Len(temp_line)]_vars

(* C20, the end taken alone: under SpecLive every run stops, at the end of
   the emission or at an exception. *)
C20_Terminates == <>(~Running)

====
